---- MODULE Spec2Model ----
(***************************************************************************)
(* EmailSender (emailService.py): the settings constructor                 *)
(* (SpecSettings), the outbound message builder and transmitter            *)
(* SMTPEmailService (Spec), the mailbox session IMAPEmailService           *)
(* (SpecIMAP), and several instances side by side (SpecInstances).         *)
(***************************************************************************)
EXTENDS Integers, Sequences, FiniteSets, TLC

(***************************************************************************)
(* Bounds of the model.                                                    *)
(***************************************************************************)
\* number of builder calls (mutators and send) in one behaviour
MaxOps == 3
\* number of get_inbox / store calls on one mailbox session
MaxCalls == 2
\* longest identifier list the server's SEARCH ALL reports
MaxInbox == 2
\* longest string passed as port to EmailServiceSettings
MaxPortLen == 2
\* number of mutating calls made on the instances of one behaviour
MaxInstOps == 2

(***************************************************************************)
(* Input domains.                                                          *)
(***************************************************************************)
\* settings.username (EmailServiceSettings.__init__)
Username == "user"
\* texts passed to subject / body / from_ / reply_to
Texts == {"a", "b"}
\* addresses passed to the recipient mutators
Addrs == {"x", "y"}
\* paths passed to attach_file / attach_files: a regular readable file, a path
\* that does not exist, and a path that exists but cannot be read (a directory)
Paths == {"ok.txt", "gone.txt", "dir"}

\* lists passed to the recipient mutators: one address, two addresses in
\* either order, one address twice
AddrLists == {<<"x">>, <<"y">>, <<"x", "y">>, <<"y", "x">>, <<"x", "x">>}
\* lists passed to attach_files: a file alone, with a missing file before or
\* after it, with an unreadable path before or after it, and twice
PathLists == {<<"ok.txt">>, <<"ok.txt", "gone.txt">>, <<"gone.txt", "ok.txt">>,
              <<"dir", "ok.txt">>, <<"ok.txt", "dir">>, <<"ok.txt", "ok.txt">>}
\* identifiers the mailbox server hands out (opaque tokens)
Ids == {"1", "2", "3"}
\* message sets passed to store
MessageSets == {"1", "1:3"}

Range(s) == {s[i] : i \in 1..Len(s)}

VARIABLES
    dev_mode,          \* settings.dev_mode
    _subject,          \* SMTPEmailService._subject
    _msg_body,         \* payload of SMTPEmailService._msg_body
    _original_msg_body,
    _original_sender,
    _reply_to,
    _from,
    _recipients,       \* set of addresses
    _cc_recipients,
    _bcc_recipients,
    _attachments,      \* set of <<path, status>>
    msg_headers,       \* _msg._headers: sequence of <<name, value>>
    msg_parts,         \* _msg payload: sequence of attached parts
    transport,         \* SMTP calls made by the most recent send(), in order
    envelope,          \* <<from_addr, to_addrs>> handed to sendmail, or <<>>
    asked_reply_to,    \* the address most recently passed to reply_to
    op,                \* the most recent builder call
    arg,               \* the argument it was called with
    ret,               \* what it returned: "self", "True", "False" or "none"
    raised,            \* the exception that escaped it, or "none"
    nops               \* number of builder calls so far

VARIABLES
    connection,        \* IMAPEmailService.connection: "None" or "IMAP4_SSL"
    imap_state,        \* connection.state of the IMAP4_SSL object
    parsed_emails,     \* IMAPEmailService.parsed_emails
    commands,          \* commands issued on the connection, in order
    exit_commands,     \* the commands __exit__ issued
    session,           \* "new", "entered", "failed" (entry raised) or "exited"
    body_raised,       \* whether __exit__ ran because the with body raised
    link,              \* the network connection to the server: "up" or "down"
    inbox,             \* the identifiers the server's SEARCH ALL reports
    fetchable,         \* the identifiers whose FETCH yields raw content
    store_reply,       \* the server's reply to the most recent STORE
    iop,               \* the most recent session call
    iret,              \* what it returned, or "none"
    iraised,           \* the exception that escaped it, or "none"
    ncalls             \* number of get_inbox / store calls so far

VARIABLES
    port_arg,          \* the port passed to EmailServiceSettings
    dev_mode_arg,      \* the dev_mode passed to EmailServiceSettings
    s_done,            \* whether the constructor has run
    s_port,            \* settings.port once constructed
    s_dev_mode,        \* settings.dev_mode once constructed
    s_raised           \* the exception the constructor raised, or "none"

settingsVars == <<port_arg, dev_mode_arg, s_done, s_port, s_dev_mode, s_raised>>

VARIABLES
    b_heap,            \* the mutable objects the builders hold, by reference
    b_refs,            \* per SMTPEmailService instance: field -> reference
    s_heap,            \* the lists the sessions hold, by reference
    s_refs,            \* per IMAPEmailService instance: parsed_emails reference
    actor,             \* the instance the most recent call was made on
    inst_ops           \* number of mutating calls so far

instVars == <<b_heap, b_refs, s_heap, s_refs, actor, inst_ops>>

imapVars == <<connection, imap_state, parsed_emails, commands, exit_commands,
              session, body_raised, link, inbox, fetchable, store_reply, iop,
              iret, iraised, ncalls>>

smtpVars == <<dev_mode, _subject, _msg_body, _original_msg_body,
              _original_sender, _reply_to, _from, _recipients,
              _cc_recipients, _bcc_recipients, _attachments, msg_headers,
              msg_parts, transport, envelope, asked_reply_to, op, arg,
              ret, raised, nops>>

(***************************************************************************)
(* EmailServiceSettings.__init__: the port and dev_mode arguments.         *)
(***************************************************************************)
Digits == {"0", "1", "7"}
\* the characters of the strings passed as port
PortChars == Digits \cup {"-", "x"}
\* the integers passed as port
PortInts == -2..2

\* a port argument is an int or a str (a sequence of characters)
PortArgs ==
    {<<"int", n>> : n \in PortInts}
        \cup {<<"str", t>> : t \in UNION {[1..n -> PortChars] : n \in 0..MaxPortLen}}

\* the list truly of the constructor; 1 and True are equal in Python
Truly == {<<"int", "1">>, <<"str", "1">>, <<"bool", "True">>,
          <<"str", "True">>, <<"str", "true">>}

\* the values passed as dev_mode
DevModeArgs ==
    Truly \cup {<<"int", "0">>, <<"int", "2">>, <<"bool", "False">>,
               <<"str", "yes">>, <<"str", "TRUE">>, <<"str", "">>}

DigitValue(c) == CASE c = "0" -> 0 [] c = "1" -> 1 [] c = "7" -> 7

\* the value of the digits t[i..] read after acc, base ten
RECURSIVE DigitsValue(_, _, _)
DigitsValue(t, i, acc) ==
    IF i > Len(t) THEN acc
    ELSE DigitsValue(t, i + 1, 10 * acc + DigitValue(t[i]))

\* int(text) accepts an optional sign followed by one or more digits
IntAccepts(t) ==
    LET from == IF Len(t) >= 1 /\ t[1] = "-" THEN 2 ELSE 1
    IN  /\ Len(t) >= from
        /\ \A i \in from..Len(t) : t[i] \in Digits

\* int(text) for a text it accepts
IntOf(t) ==
    IF t[1] = "-" THEN 0 - DigitsValue(t, 2, 0) ELSE DigitsValue(t, 1, 0)

\* a constructor that turns away ports that are not positive
PortResult_positive(port) ==
    LET ok == IF port[1] = "int" THEN port[2] > 0
              ELSE IntAccepts(port[2]) /\ IntOf(port[2]) > 0
    IN  IF ok
        THEN [port |-> IF port[1] = "int" THEN port[2] ELSE IntOf(port[2]),
              raised |-> "none"]
        ELSE [port |-> 0, raised |-> "ValueError"]

\* the port the constructor stores, or the ValueError it raises: an int is
\* stored as it is, anything else goes through int()
PortResult(port) ==
    IF port[1] = "int"
    THEN [port |-> port[2], raised |-> "none"]
    ELSE IF IntAccepts(port[2])
    THEN [port |-> IntOf(port[2]), raised |-> "none"]
    ELSE [port |-> 0, raised |-> "ValueError"]

\* no settings object is under construction
SettingsIdle ==
    /\ port_arg = <<"int", 1>>
    /\ dev_mode_arg = <<"bool", "False">>
    /\ s_done = FALSE
    /\ s_port = 0
    /\ s_dev_mode = FALSE
    /\ s_raised = "none"

SettingsInit ==
    /\ port_arg \in PortArgs
    /\ dev_mode_arg \in DevModeArgs
    /\ s_done = FALSE
    /\ s_port = 0
    /\ s_dev_mode = FALSE
    /\ s_raised = "none"

\* EmailServiceSettings(username, password, server, port_arg, dev_mode_arg)
construct ==
    /\ ~s_done
    /\ s_done' = TRUE
    /\ s_dev_mode' = (dev_mode_arg \in Truly)
    /\ s_port' = PortResult(port_arg).port
    /\ s_raised' = PortResult(port_arg).raised
    /\ UNCHANGED <<port_arg, dev_mode_arg, smtpVars, imapVars, instVars>>

(***************************************************************************)
(* email.message.Message header operations.                                *)
(***************************************************************************)
\* Message.add_header: appends a header, whatever headers exist already
AddHeader(h, name, val) == Append(h, <<name, val>>)

\* Message.__contains__
HasHeader(h, name) == \E i \in 1..Len(h) : h[i][1] = name

\* Message.replace_header: rewrites the first header of that name in place;
\* the caller sees KeyError when there is none (HasHeader is false)
ReplaceHeader(h, name, val) ==
    LET i == CHOOSE k \in 1..Len(h) :
                 /\ h[k][1] = name
                 /\ \A j \in 1..(k - 1) : h[j][1] # name
    IN  [h EXCEPT ![i] = <<name, val>>]

\* Message.get_all
GetAll(h, name) == SelectSeq(h, LAMBDA e : e[1] = name)

\* the orders in which ", ".join(a_set) can list the set
JoinOrders(S) == {s \in [1..Cardinality(S) -> S] : Range(s) = S}

(***************************************************************************)
(* SMTPEmailService.__init__                                               *)
(***************************************************************************)
SMTPInit ==
    /\ dev_mode \in BOOLEAN
    /\ _subject = ""
    /\ _msg_body = ""
    /\ _original_msg_body = ""
    /\ _original_sender = Username
    /\ _reply_to = Username
    /\ _from = Username
    /\ _recipients = {}
    /\ _cc_recipients = {}
    /\ _bcc_recipients = {}
    /\ _attachments = {}
    /\ msg_headers = <<>>
    /\ msg_parts = <<>>
    /\ transport = <<>>
    /\ envelope = <<>>
    /\ asked_reply_to = Username
    /\ op = "init"
    /\ arg = <<>>
    /\ ret = "none"
    /\ raised = "none"
    /\ nops = 0

\* every builder call: bounded and recorded; it touches no mailbox session
Call(name, a) ==
    /\ nops < MaxOps
    /\ nops' = nops + 1
    /\ op' = name
    /\ arg' = a
    /\ asked_reply_to' = IF name = "reply_to" THEN a ELSE asked_reply_to
    /\ UNCHANGED <<imapVars, settingsVars, instVars>>

Returns(v) == ret' = v /\ raised' = "none"
Raises(e) == ret' = "none" /\ raised' = e

subject(text) ==
    /\ Call("subject", text)
    /\ _subject' = text
    /\ Returns("self")
    /\ UNCHANGED <<dev_mode, _msg_body, _original_msg_body, _original_sender,
                   _reply_to, _from, _recipients, _cc_recipients,
                   _bcc_recipients, _attachments, msg_headers, msg_parts,
                   transport, envelope>>

\* the MIMEText part body() builds
BodyPart(text) == <<"text/html", "UTF-8", text>>

body(text) ==
    /\ Call("body", text)
    /\ _original_msg_body' = text
    /\ _msg_body' = text
    /\ msg_parts' = Append(msg_parts, BodyPart(text))
    /\ Returns("self")
    /\ UNCHANGED <<dev_mode, _subject, _original_sender, _reply_to, _from,
                   _recipients, _cc_recipients, _bcc_recipients, _attachments,
                   msg_headers, transport, envelope>>

reply_to(text) ==
    /\ Call("reply_to", text)
    /\ IF HasHeader(msg_headers, "Reply-To")
       THEN /\ msg_headers' = ReplaceHeader(msg_headers, "Reply-To", text)
            /\ Returns("self")
       ELSE /\ msg_headers' = msg_headers
            /\ Raises("KeyError")
    /\ UNCHANGED <<dev_mode, _subject, _msg_body, _original_msg_body,
                   _original_sender, _reply_to, _from, _recipients,
                   _cc_recipients, _bcc_recipients, _attachments, msg_parts,
                   transport, envelope>>

from_(text) ==
    /\ Call("from_", text)
    /\ _from' = text
    /\ Returns("self")
    /\ UNCHANGED <<dev_mode, _subject, _msg_body, _original_msg_body,
                   _original_sender, _reply_to, _recipients, _cc_recipients,
                   _bcc_recipients, _attachments, msg_headers, msg_parts,
                   transport, envelope>>

\* a recipient mutator that adds its header without looking for an old one
SetRecipientHeader_add(h, name, val) == AddHeader(h, name, val)

\* the header write shared by the three recipient mutators: replace the
\* header when the message has one, add it otherwise
SetRecipientHeader(h, name, val) ==
    IF HasHeader(h, name) THEN ReplaceHeader(h, name, val)
                          ELSE AddHeader(h, name, val)

recipients(list) ==
    /\ Call("recipients", list)
    /\ _recipients' = _recipients \cup Range(list)
    /\ \E joined \in JoinOrders(_recipients') :
          msg_headers' = SetRecipientHeader(msg_headers, "To", joined)
    /\ Returns("self")
    /\ UNCHANGED <<dev_mode, _subject, _msg_body, _original_msg_body,
                   _original_sender, _reply_to, _from, _cc_recipients,
                   _bcc_recipients, _attachments, msg_parts, transport,
                   envelope>>

cc_recipients(list) ==
    /\ Call("cc_recipients", list)
    /\ _cc_recipients' = _cc_recipients \cup Range(list)
    /\ \E joined \in JoinOrders(_cc_recipients') :
          msg_headers' = SetRecipientHeader(msg_headers, "CC", joined)
    /\ Returns("self")
    /\ UNCHANGED <<dev_mode, _subject, _msg_body, _original_msg_body,
                   _original_sender, _reply_to, _from, _recipients,
                   _bcc_recipients, _attachments, msg_parts, transport,
                   envelope>>

bcc_recipients(list) ==
    /\ Call("bcc_recipients", list)
    /\ _bcc_recipients' = _bcc_recipients \cup Range(list)
    /\ \E joined \in JoinOrders(_bcc_recipients') :
          msg_headers' = SetRecipientHeader(msg_headers, "BCC", joined)
    /\ Returns("self")
    /\ UNCHANGED <<dev_mode, _subject, _msg_body, _original_msg_body,
                   _original_sender, _reply_to, _from, _recipients,
                   _cc_recipients, _attachments, msg_parts, transport,
                   envelope>>

(***************************************************************************)
(* The file system attach_files reads: Path.exists and Path.read_bytes.    *)
(***************************************************************************)
\* Path.exists()
FileExists(p) == p # "gone.txt"

\* Path.read_bytes() returns the contents; on a path that exists but is not
\* a readable regular file it raises an OSError
FileReadable(p) == p = "ok.txt"

\* the MIMEApplication part attach_files builds for one file
AttachmentPart(p) == <<"application", "attachment", p>>

\* a loop round that keeps no record of a file that is missing
AttachOne_existing_only(p, att, parts) ==
    IF ~FileExists(p)
    THEN [att |-> att, parts |-> parts, raised |-> "none"]
    ELSE IF FileReadable(p)
    THEN [att |-> att \cup {<<p, "Exists">>},
          parts |-> Append(parts, AttachmentPart(p)), raised |-> "none"]
    ELSE [att |-> att \cup {<<p, "Exists">>}, parts |-> parts,
          raised |-> "OSError"]

\* one round of the loop of attach_files: the record for the file, and its
\* part when the file exists; raised is the exception that ends the loop
AttachOne(p, att, parts) ==
    LET status == IF FileExists(p) THEN "Exists" ELSE "Missing"
        att2 == att \cup {<<p, status>>}
    IN  IF FileExists(p)
        THEN IF FileReadable(p)
             THEN [att |-> att2, parts |-> Append(parts, AttachmentPart(p)),
                   raised |-> "none"]
             ELSE [att |-> att2, parts |-> parts, raised |-> "OSError"]
        ELSE [att |-> att2, parts |-> parts, raised |-> "none"]

\* the loop of attach_files from file i on: the attachment set, the parts
\* and the exception that ended the loop early ("none" when it ran through)
RECURSIVE AttachLoop(_, _, _, _)
AttachLoop(files, i, att, parts) ==
    IF i > Len(files)
    THEN [att |-> att, parts |-> parts, raised |-> "none"]
    ELSE LET r == AttachOne(files[i], att, parts)
         IN  IF r.raised = "none"
             THEN AttachLoop(files, i + 1, r.att, r.parts)
             ELSE r

attach_files(files) ==
    /\ Call("attach_files", files)
    /\ LET r == AttachLoop(files, 1, _attachments, msg_parts)
       IN  /\ _attachments' = r.att
           /\ msg_parts' = r.parts
           /\ IF r.raised = "none" THEN Returns("self") ELSE Raises(r.raised)
    /\ UNCHANGED <<dev_mode, _subject, _msg_body, _original_msg_body,
                   _original_sender, _reply_to, _from, _recipients,
                   _cc_recipients, _bcc_recipients, msg_headers, transport,
                   envelope>>

attach_file(file) ==
    /\ Call("attach_file", file)
    /\ LET r == AttachLoop(<<file>>, 1, _attachments, msg_parts)
       IN  /\ _attachments' = r.att
           /\ msg_parts' = r.parts
           /\ IF r.raised = "none" THEN Returns("self") ELSE Raises(r.raised)
    /\ UNCHANGED <<dev_mode, _subject, _msg_body, _original_msg_body,
                   _original_sender, _reply_to, _from, _recipients,
                   _cc_recipients, _bcc_recipients, msg_headers, transport,
                   envelope>>

(***************************************************************************)
(* The SMTP transport send() drives: SMTP(server, port), starttls, login,  *)
(* sendmail, and the release of the session when the with block is left.   *)
(***************************************************************************)
TransportSteps == <<"connect", "starttls", "login", "sendmail">>

\* what one transport session can do: run through, or fail at one step
\* with one of the exceptions that step raises
TransportOutcomes ==
    { <<"none", "none">>,
      <<"connect", "SMTPConnectError">>,          \* server greets with an error
      <<"connect", "ConnectionRefusedError">>,    \* socket cannot connect
      <<"starttls", "SMTPNotSupportedError">>,    \* server has no STARTTLS
      <<"starttls", "SSLError">>,                 \* TLS handshake fails
      <<"login", "SMTPAuthenticationError">>,     \* credentials rejected
      <<"sendmail", "SMTPRecipientsRefused">>,    \* every recipient rejected
      <<"sendmail", "SMTPServerDisconnected">> }  \* connection lost

\* the exceptions of smtplib that derive from SMTPException; the socket and
\* TLS errors derive from OSError only
IsSMTPException(e) ==
    e \in {"SMTPConnectError", "SMTPNotSupportedError",
           "SMTPAuthenticationError", "SMTPRecipientsRefused",
           "SMTPServerDisconnected"}

\* the exceptions the except clause of send() handles
SendCatches(e) == IsSMTPException(e)

StepIndex(step) == CHOOSE i \in 1..Len(TransportSteps) : TransportSteps[i] = step

\* a send() that releases the session only when every step succeeded
TransportLog_leak(outcome) ==
    IF outcome[1] = "none" THEN Append(TransportSteps, "quit")
    ELSE SubSeq(TransportSteps, 1, StepIndex(outcome[1]))

\* the calls made on the transport under an outcome: the steps up to and
\* including the failing one, then the release of the session if the
\* constructor had returned one
TransportLog(outcome) ==
    LET last == IF outcome[1] = "none" THEN Len(TransportSteps)
                ELSE StepIndex(outcome[1])
        steps == SubSeq(TransportSteps, 1, last)
    IN  IF outcome[1] = "connect" THEN steps ELSE Append(steps, "quit")

\* the four headers send() writes before anything else
FinalizeHeaders(h) ==
    AddHeader(AddHeader(AddHeader(AddHeader(h,
        "Original-Sender", _original_sender),
        "Reply-To", _reply_to),
        "From", _from),
        "Subject", _subject)

\* a send() that never takes the dry-run branch
DryRun_never == FALSE

\* the test send() makes before it touches the transport
DryRun == dev_mode

send(outcome, to_addrs) ==
    /\ Call("send", outcome)
    /\ msg_headers' = FinalizeHeaders(msg_headers)
    /\ IF DryRun
       THEN /\ outcome = <<"none", "none">>
            /\ to_addrs = <<>>
            /\ transport' = <<>>
            /\ envelope' = <<>>
            /\ Returns("True")
       ELSE \* sendmail refuses an empty recipient list
            /\ (outcome[1] = "none") => (to_addrs # <<>>)
            /\ transport' = TransportLog(outcome)
            /\ envelope' = IF outcome[1] \in {"none", "sendmail"}
                           THEN <<Username, to_addrs>> ELSE <<>>
            /\ IF outcome[2] = "none" THEN Returns("True")
               ELSE IF SendCatches(outcome[2]) THEN Returns("False")
               ELSE Raises(outcome[2])
    /\ UNCHANGED <<dev_mode, _subject, _msg_body, _original_msg_body,
                   _original_sender, _reply_to, _from, _recipients,
                   _cc_recipients, _bcc_recipients, _attachments, msg_parts>>

\* [*_recipients, *_cc_recipients, *_bcc_recipients]
EnvelopeLists ==
    {r \o c \o b : r \in JoinOrders(_recipients),
                   c \in JoinOrders(_cc_recipients),
                   b \in JoinOrders(_bcc_recipients)}

SMTPNext ==
    \/ \E text \in Texts : subject(text)
    \/ \E text \in Texts : body(text)
    \/ \E text \in Texts : reply_to(text)
    \/ \E text \in Texts : from_(text)
    \/ \E list \in AddrLists : recipients(list)
    \/ \E list \in AddrLists : cc_recipients(list)
    \/ \E list \in AddrLists : bcc_recipients(list)
    \/ \E files \in PathLists : attach_files(files)
    \/ \E file \in Paths : attach_file(file)
    \/ \E outcome \in TransportOutcomes :
          \E to_addrs \in (IF outcome[1] \in {"none", "sendmail"} /\ ~dev_mode
                           THEN EnvelopeLists ELSE {<<>>}) :
             send(outcome, to_addrs)

(***************************************************************************)
(* The mailbox session: IMAPEmailService over an imaplib connection.       *)
(***************************************************************************)
\* the identifier lists a SEARCH ALL can report
InboxLists ==
    {s \in UNION {[1..n -> Ids] : n \in 0..MaxInbox} :
        \A i, j \in 1..Len(s) : i # j => s[i] # s[j]}

\* the raw bytes FETCH returns for an identifier
RawOf(num) == <<"RFC822", num>>

\* mailparser.parse_from_bytes
parse_from_bytes(raw) == <<"MailParser", raw[2]>>

\* the connection states in which imaplib accepts a command; in any other
\* state the call raises IMAP4.error before anything is sent
AllowedStates(cmd) ==
    CASE cmd = "LOGIN"  -> {"NONAUTH"}
      [] cmd = "SELECT" -> {"AUTH", "SELECTED"}
      [] cmd = "LOGOUT" -> {"NONAUTH", "AUTH", "SELECTED", "LOGOUT"}
      [] OTHER          -> {"SELECTED"}

\* IMAPEmailService.__init__ with the class attribute connection = None
IMAPInit ==
    /\ connection = "None"
    /\ imap_state = "NONAUTH"
    /\ parsed_emails = <<>>
    /\ commands = <<>>
    /\ exit_commands = <<>>
    /\ session = "new"
    /\ body_raised = FALSE
    /\ link = "up"
    /\ inbox \in InboxLists
    /\ fetchable \in SUBSET Ids
    /\ store_reply = "none"
    /\ iop = "init"
    /\ iret = "none"
    /\ iraised = "none"
    /\ ncalls = 0

IReturns(v) == iret' = v /\ iraised' = "none"
IRaises(e) == iret' = "none" /\ iraised' = e

\* __enter__: the IMAP4_SSL constructor, then login
enter(outcome) ==
    /\ session = "new"
    /\ UNCHANGED <<smtpVars, settingsVars, instVars>>
    /\ iop' = "enter"
    /\ IF outcome = "connect_fails"
       THEN /\ IRaises("OSError")
            /\ session' = "failed"
            /\ UNCHANGED <<connection, imap_state, commands, link>>
       ELSE /\ connection' = "IMAP4_SSL"
            /\ commands' = Append(commands, <<"LOGIN", Username>>)
            /\ link' = link
            /\ IF outcome = "login_fails"
               THEN /\ imap_state' = "NONAUTH"
                    /\ IRaises("ConnectionError")
                    /\ session' = "failed"
               ELSE /\ imap_state' = "AUTH"
                    /\ IReturns("self")
                    /\ session' = "entered"
    /\ UNCHANGED <<parsed_emails, exit_commands, body_raised, inbox,
                   fetchable, store_reply, ncalls>>

\* an __exit__ that closes the mailbox whatever the connection state
MailboxSelected_always == TRUE

\* the test __exit__ makes: connection.state == "SELECTED"
MailboxSelected == imap_state = "SELECTED"

\* __exit__: close when SELECTED, then logout; a command issued on a dead
\* link raises IMAP4.abort out of __exit__
exit(exc) ==
    /\ session = "entered"
    /\ UNCHANGED <<smtpVars, settingsVars, instVars>>
    /\ iop' = "exit"
    /\ body_raised' = exc
    /\ session' = "exited"
    /\ IF MailboxSelected /\ link = "down"
       THEN /\ exit_commands' = <<"CLOSE">>
            /\ imap_state' = "AUTH"
            /\ IRaises("IMAP4.abort")
       ELSE /\ exit_commands' =
                 (IF MailboxSelected THEN <<"CLOSE">> ELSE <<>>)
                 \o <<"LOGOUT">>
            /\ imap_state' = "LOGOUT"
            /\ IF link = "down" THEN IRaises("IMAP4.abort")
                                ELSE IReturns("None")
    /\ commands' = commands \o [i \in 1..Len(exit_commands') |->
                                   <<exit_commands'[i], "">>]
    /\ UNCHANGED <<connection, parsed_emails, link, inbox, fetchable,
                   store_reply, ncalls>>

\* a session that takes the connection for established from the start
Established_always == TRUE

\* the test store and get_inbox make first: "if self.connection"
Established == connection # "None"

store(message_set, reply) ==
    /\ ncalls < MaxCalls
    /\ ncalls' = ncalls + 1
    /\ iop' = "store"
    /\ UNCHANGED <<smtpVars, settingsVars, instVars>>
    /\ IF Established
       THEN IF imap_state \notin AllowedStates("STORE")
            THEN /\ IRaises("IMAP4.error")
                 /\ UNCHANGED <<commands, store_reply>>
            ELSE /\ commands' = Append(commands, <<"STORE", message_set>>)
                 /\ IF link = "down"
                    THEN /\ IRaises("IMAP4.abort")
                         /\ store_reply' = "none"
                    ELSE /\ IReturns("True")
                         /\ store_reply' = reply
       ELSE /\ IRaises("ConnectionError")
            /\ UNCHANGED <<commands, store_reply>>
    /\ UNCHANGED <<connection, imap_state, parsed_emails, exit_commands,
                   session, body_raised, link, inbox, fetchable>>

\* a get_inbox that appends a pair for every response, content or not
FetchOne_unchecked(num, parsed) ==
    Append(parsed, <<num, parse_from_bytes(RawOf(num))>>)

\* what get_inbox does with the response to one FETCH: a response carrying
\* raw content is parsed and appended under its identifier, any other is
\* skipped
FetchOne(num, parsed) ==
    IF num \in fetchable
    THEN Append(parsed, <<num, parse_from_bytes(RawOf(num))>>)
    ELSE parsed

\* the fetch loop of get_inbox from identifier i on; alive is the number of
\* further commands the link carries before it drops (-1: it stays up)
RECURSIVE FetchLoop(_, _, _, _, _)
FetchLoop(listed, i, parsed, cmds, alive) ==
    IF i > Len(listed)
    THEN [parsed |-> parsed, cmds |-> cmds, raised |-> "none"]
    ELSE LET num == listed[i]
             sent == Append(cmds, <<"FETCH", num>>)
         IN  IF alive = 0
             THEN [parsed |-> parsed, cmds |-> sent, raised |-> "IMAP4.abort"]
             ELSE FetchLoop(listed, i + 1, FetchOne(num, parsed), sent,
                            IF alive > 0 THEN alive - 1 ELSE alive)

\* a get_inbox that starts every call from an empty list
Accumulated_fresh == <<>>

\* the list get_inbox appends to: self.parsed_emails, set once in __init__
Accumulated == parsed_emails

\* get_inbox: select, search, then the fetch loop
GetInboxResult(alive) ==
    IF imap_state \notin AllowedStates("SELECT")
    THEN [parsed |-> parsed_emails, cmds |-> commands,
          raised |-> "IMAP4.error", state |-> imap_state]
    ELSE LET c1 == Append(commands, <<"SELECT", "INBOX">>)
             c2 == Append(c1, <<"SEARCH", "ALL">>)
         IN  IF alive = 0
             THEN [parsed |-> parsed_emails, cmds |-> c1,
                   raised |-> "IMAP4.abort", state |-> imap_state]
             ELSE IF alive = 1
             THEN [parsed |-> parsed_emails, cmds |-> c2,
                   raised |-> "IMAP4.abort", state |-> "SELECTED"]
             ELSE [state |-> "SELECTED"] @@
                  FetchLoop(inbox, 1, Accumulated, c2,
                            IF alive > 0 THEN alive - 2 ELSE alive)

get_inbox(drop) ==
    /\ ncalls < MaxCalls
    /\ ncalls' = ncalls + 1
    /\ iop' = "get_inbox"
    /\ UNCHANGED <<smtpVars, settingsVars, instVars>>
    /\ IF Established
       THEN LET r == GetInboxResult(IF link = "down" THEN 0 ELSE drop)
            IN  /\ parsed_emails' = r.parsed
                /\ commands' = r.cmds
                /\ imap_state' = r.state
                /\ link' = IF r.raised = "IMAP4.abort" THEN "down" ELSE link
                /\ IF r.raised = "none" THEN IReturns(r.parsed)
                                        ELSE IRaises(r.raised)
       ELSE /\ IRaises("ConnectionError")
            /\ UNCHANGED <<parsed_emails, commands, imap_state, link>>
    /\ UNCHANGED <<connection, exit_commands, session, body_raised, inbox,
                   fetchable, store_reply>>

\* the network: the connection to the server can be lost at any time
link_drops ==
    /\ connection # "None"
    /\ link = "up"
    /\ link' = "down"
    /\ UNCHANGED <<smtpVars, settingsVars, instVars>>
    /\ UNCHANGED <<connection, imap_state, parsed_emails, commands,
                   exit_commands, session, body_raised, inbox, fetchable,
                   store_reply, iop, iret, iraised, ncalls>>

IMAPNext ==
    \/ \E outcome \in {"ok", "connect_fails", "login_fails"} : enter(outcome)
    \/ \E exc \in BOOLEAN : exit(exc)
    \/ \E ms \in MessageSets, reply \in {"OK", "NO"} : store(ms, reply)
    \/ \E drop \in -1..(MaxInbox + 1) : get_inbox(drop)
    \/ link_drops

(***************************************************************************)
(* Several instances: the objects each SMTPEmailService and each           *)
(* IMAPEmailService creates in __init__, held by reference.                *)
(***************************************************************************)
Instances == {1, 2}

\* a mutable default made once, at class definition, for all instances
FreshRef_shared(heap, k) == k

\* the k-th object an __init__ creates: set(), MIMEMultipart() and []
\* make a new object at every call
FreshRef(heap, k) == Len(heap) + k

\* the fields of a builder that hold mutable objects
BuilderFields == {"_recipients", "_cc_recipients", "_bcc_recipients",
                  "_attachments", "_msg"}

NoBuilder == [f \in BuilderFields |-> 0]
BuilderMade(i) == b_refs[i]["_msg"] # 0
SessionMade(i) == s_refs[i] # 0

\* no instance has been constructed
InstIdle ==
    /\ b_heap = <<>>
    /\ s_heap = <<>>
    /\ b_refs = [i \in Instances |-> NoBuilder]
    /\ s_refs = [i \in Instances |-> 0]
    /\ actor = <<"none", 0>>
    /\ inst_ops = 0

InstFrame == UNCHANGED <<smtpVars, imapVars, settingsVars>>

InstCall(kind, i) ==
    /\ inst_ops < MaxInstOps
    /\ inst_ops' = inst_ops + 1
    /\ actor' = <<kind, i>>
    /\ InstFrame

\* SMTPEmailService.__init__ on instance i
new_builder(i) ==
    /\ ~BuilderMade(i)
    /\ b_refs' = [b_refs EXCEPT ![i] =
                    [_recipients     |-> FreshRef(b_heap, 1),
                     _cc_recipients  |-> FreshRef(b_heap, 2),
                     _bcc_recipients |-> FreshRef(b_heap, 3),
                     _attachments    |-> FreshRef(b_heap, 4),
                     _msg            |-> FreshRef(b_heap, 5)]]
    /\ b_heap' = b_heap \o <<{}, {}, {}, {},
                              [headers |-> <<>>, parts |-> <<>>]>>
    /\ actor' = <<"builder", i>>
    /\ InstFrame
    /\ UNCHANGED <<s_heap, s_refs, inst_ops>>

\* IMAPEmailService.__init__ on instance i
new_session(i) ==
    /\ ~SessionMade(i)
    /\ s_refs' = [s_refs EXCEPT ![i] = FreshRef(s_heap, 1)]
    /\ s_heap' = Append(s_heap, <<>>)
    /\ actor' = <<"session", i>>
    /\ InstFrame
    /\ UNCHANGED <<b_heap, b_refs, inst_ops>>

\* the header name of a recipient field
HeaderOf(field) ==
    CASE field = "_recipients"     -> "To"
      [] field = "_cc_recipients"  -> "CC"
      [] field = "_bcc_recipients" -> "BCC"

\* recipients / cc_recipients / bcc_recipients on instance i
inst_recipients(i, field, list) ==
    /\ BuilderMade(i)
    /\ InstCall("builder", i)
    /\ LET set == b_refs[i][field]
           msg == b_refs[i]["_msg"]
           joined == b_heap[set] \cup Range(list)
       IN  \E order \in JoinOrders(joined) :
              b_heap' =
                 [[b_heap EXCEPT ![set] = joined]
                     EXCEPT ![msg].headers =
                        SetRecipientHeader(@, HeaderOf(field), order)]
    /\ UNCHANGED <<b_refs, s_heap, s_refs>>

\* body on instance i
inst_body(i, text) ==
    /\ BuilderMade(i)
    /\ InstCall("builder", i)
    /\ b_heap' = [b_heap EXCEPT ![b_refs[i]["_msg"]].parts =
                                   Append(@, BodyPart(text))]
    /\ UNCHANGED <<b_refs, s_heap, s_refs>>

\* attach_files on instance i
inst_attach_files(i, files) ==
    /\ BuilderMade(i)
    /\ InstCall("builder", i)
    /\ LET att == b_refs[i]["_attachments"]
           msg == b_refs[i]["_msg"]
           r == AttachLoop(files, 1, b_heap[att], b_heap[msg].parts)
       IN  b_heap' = [[b_heap EXCEPT ![att] = r.att]
                         EXCEPT ![msg].parts = r.parts]
    /\ UNCHANGED <<b_refs, s_heap, s_refs>>

\* a complete get_inbox on an entered instance i
inst_get_inbox(i) ==
    /\ SessionMade(i)
    /\ InstCall("session", i)
    /\ s_heap' = [s_heap EXCEPT ![s_refs[i]] =
                     FetchLoop(inbox, 1, @, <<>>, -1).parsed]
    /\ UNCHANGED <<b_heap, b_refs, s_refs>>

InstNext ==
    \/ \E i \in Instances : new_builder(i)
    \/ \E i \in Instances : new_session(i)
    \/ \E i \in Instances, list \in AddrLists :
          \E field \in BuilderFields \ {"_attachments", "_msg"} :
             inst_recipients(i, field, list)
    \/ \E i \in Instances, text \in Texts : inst_body(i, text)
    \/ \E i \in Instances, files \in PathLists : inst_attach_files(i, files)
    \/ \E i \in Instances : inst_get_inbox(i)

vars == <<smtpVars, imapVars, settingsVars, instVars>>

\* the builder alone: no mailbox session is in use
Init ==
    /\ SMTPInit
    /\ IMAPInit /\ inbox = <<>> /\ fetchable = {}
    /\ SettingsIdle
    /\ InstIdle
Next == SMTPNext
Spec == Init /\ [][Next]_vars

\* the mailbox session alone: no builder is in use
InitIMAP ==
    /\ IMAPInit
    /\ SMTPInit /\ dev_mode
    /\ SettingsIdle
    /\ InstIdle
NextIMAP == IMAPNext
SpecIMAP == InitIMAP /\ [][NextIMAP]_vars

\* the settings constructor alone
InitSettings ==
    /\ SettingsInit
    /\ InstIdle
    /\ SMTPInit /\ dev_mode
    /\ IMAPInit /\ inbox = <<>> /\ fetchable = {}
NextSettings == construct
SpecSettings == InitSettings /\ [][NextSettings]_vars

\* two builders and two sessions side by side, on a mailbox of one message
InitInstances ==
    /\ InstIdle
    /\ SettingsIdle
    /\ SMTPInit /\ dev_mode
    /\ IMAPInit /\ inbox = <<"1">> /\ fetchable = {"1"}
NextInstances == InstNext
SpecInstances == InitInstances /\ [][NextInstances]_vars

(***************************************************************************)
(* Properties.                                                             *)
(***************************************************************************)
Mutators == {"subject", "body", "from_", "reply_to", "recipients",
             "cc_recipients", "bcc_recipients", "attach_file", "attach_files"}

\* the most recent step was a call of the builder / of the session
BuilderCalled == nops' = nops + 1
SessionCalled == ncalls' = ncalls + 1

BodyParts(parts) == SelectSeq(parts, LAMBDA e : e[1] = "text/html")
AttachmentParts(parts) == SelectSeq(parts, LAMBDA e : e[1] = "application")
Count(seq, x) == Len(SelectSeq(seq, LAMBDA e : e = x))

\* C1: with dev_mode false, a send() in which the transport failed (at
\* connect, STARTTLS, login or sendmail) returns False and lets no exception
\* escape.
C1_TransportFailureReturnsFalse ==
    (op = "send" /\ ~dev_mode /\ arg[2] # "none")
        => (ret = "False" /\ raised = "none")

\* C2: with dev_mode true no transport call is ever made, and every send()
\* returns True without raising, whatever builder calls came before it.
C2_DryRunSendsNothing ==
    dev_mode => /\ transport = <<>>
                /\ envelope = <<>>
                /\ (op = "send" => ret = "True" /\ raised = "none")

\* a dry-run send() on a builder that holds a body part and a To header
C2_Witness ==
    /\ dev_mode /\ op = "send" /\ ret = "True"
    /\ msg_parts # <<>>
    /\ HasHeader(msg_headers, "To")

\* C3: every __exit__ of an entered session issues LOGOUT exactly once,
\* whether the body raised or not and whether a mailbox was selected or not.
C3_ExitLogsOutOnce ==
    (session = "exited") => (Count(exit_commands, "LOGOUT") = 1)

\* C4: get_inbox() and store() on a session that was never entered raise
\* ConnectionError, issue no command and leave parsed_emails as it was.
C4_NotEnteredRaises ==
    [][(session = "new" /\ SessionCalled)
          => /\ iop' \in {"get_inbox", "store"}
             /\ iraised' = "ConnectionError"
             /\ iret' = "none"
             /\ commands' = commands
             /\ parsed_emails' = parsed_emails]_vars

\* both calls made on a session that was never entered
C4_Witness ==
    /\ session = "new" /\ ncalls = 2
    /\ iop \in {"get_inbox", "store"}
    /\ iraised = "ConnectionError"
    /\ commands = <<>>

\* the argument of the most recent mutator call is well formed: every file
\* it names is missing or can be read
WellFormedArg ==
    CASE op = "attach_file"  -> (FileExists(arg) => FileReadable(arg))
      [] op = "attach_files" ->
            \A i \in 1..Len(arg) : FileExists(arg[i]) => FileReadable(arg[i])
      [] OTHER -> TRUE

\* C5: every mutator called with a well-formed argument returns the builder
\* and raises nothing, in every builder state, the fresh one included.
C5_MutatorsReturnSelf ==
    (op \in Mutators /\ WellFormedArg) => (ret = "self" /\ raised = "none")

\* C6: after one or more body() calls and a send(), the message holds
\* exactly one body part, carrying the text of the latest body() call.
C6_OneBodyPart ==
    (op = "send" /\ Len(BodyParts(msg_parts)) >= 1)
        => /\ Len(BodyParts(msg_parts)) = 1
           /\ BodyParts(msg_parts)[1][3] = _original_msg_body

\* C7: after send() the message carries exactly one Original-Sender,
\* Reply-To, From and Subject header, holding the settings identity, the
\* address of the latest reply_to call (or the identity), the value of the
\* latest from_ call (or the identity) and the latest subject (or "").
C7_SingletonHeaders ==
    (op = "send")
        => /\ GetAll(msg_headers, "Original-Sender")
                 = << <<"Original-Sender", Username>> >>
           /\ GetAll(msg_headers, "Reply-To")
                 = << <<"Reply-To", asked_reply_to>> >>
           /\ GetAll(msg_headers, "From") = << <<"From", _from>> >>
           /\ GetAll(msg_headers, "Subject") = << <<"Subject", _subject>> >>

\* the recipient header of one class is there exactly when the class was
\* given addresses, it is there once, and it lists the set without repeats
RecipientHeaderOk(name, set) ==
    IF set = {}
    THEN ~HasHeader(msg_headers, name)
    ELSE /\ Len(GetAll(msg_headers, name)) = 1
         /\ Len(GetAll(msg_headers, name)[1][2]) = Cardinality(set)
         /\ Range(GetAll(msg_headers, name)[1][2]) = set

\* C8: each recipient mutator unions the addresses passed into the set of
\* its class, and in every state the message has a single To / CC / BCC
\* header listing each address of the set exactly once.
C8_RecipientSetsAndHeaders ==
    /\ [](/\ RecipientHeaderOk("To", _recipients)
          /\ RecipientHeaderOk("CC", _cc_recipients)
          /\ RecipientHeaderOk("BCC", _bcc_recipients))
    /\ [][BuilderCalled =>
            /\ (op' = "recipients"
                  => _recipients' = _recipients \cup Range(arg'))
            /\ (op' = "cc_recipients"
                  => _cc_recipients' = _cc_recipients \cup Range(arg'))
            /\ (op' = "bcc_recipients"
                  => _bcc_recipients' = _bcc_recipients \cup Range(arg'))]_vars

\* recipients() called again, with one address twice, on a set that holds
\* another address already
C8_Witness ==
    /\ op = "recipients" /\ nops >= 2 /\ ret = "self"
    /\ arg = <<"x", "x">>
    /\ _recipients = {"x", "y"}
    /\ Len(GetAll(msg_headers, "To")) = 1
    /\ Len(GetAll(msg_headers, "To")[1][2]) = 2

Attached(p, att) == \E st \in {"Exists", "Missing"} : <<p, st>> \in att

\* C9 as stated: attach_file on a missing path records (path, Missing) and
\* adds no part; on any existing path it records (path, Exists) and adds
\* exactly one part; a path not attached before adds exactly one record.
C9_AttachFileAsStated ==
    [][(BuilderCalled /\ op' = "attach_file") =>
          /\ ~FileExists(arg') =>
                /\ <<arg', "Missing">> \in _attachments'
                /\ Len(AttachmentParts(msg_parts'))
                      = Len(AttachmentParts(msg_parts))
          /\ FileExists(arg') =>
                /\ <<arg', "Exists">> \in _attachments'
                /\ Len(AttachmentParts(msg_parts'))
                      = Len(AttachmentParts(msg_parts)) + 1
          /\ ~Attached(arg', _attachments) =>
                Cardinality(_attachments') = Cardinality(_attachments) + 1]_vars

\* C9 amended: attach_file on a missing path records (path, Missing) and
\* adds no part; on an existing path whose contents can be read it records
\* (path, Exists) and adds exactly one part; on an existing path that
\* cannot be read it records (path, Exists), adds no part and the OSError
\* escapes; a path not attached before adds exactly one record.
C9_AttachFile ==
    [][(BuilderCalled /\ op' = "attach_file") =>
          /\ ~FileExists(arg') =>
                /\ <<arg', "Missing">> \in _attachments'
                /\ Len(AttachmentParts(msg_parts'))
                      = Len(AttachmentParts(msg_parts))
                /\ ret' = "self"
          /\ (FileExists(arg') /\ FileReadable(arg')) =>
                /\ <<arg', "Exists">> \in _attachments'
                /\ Len(AttachmentParts(msg_parts'))
                      = Len(AttachmentParts(msg_parts)) + 1
                /\ ret' = "self"
          /\ (FileExists(arg') /\ ~FileReadable(arg')) =>
                /\ <<arg', "Exists">> \in _attachments'
                /\ Len(AttachmentParts(msg_parts'))
                      = Len(AttachmentParts(msg_parts))
                /\ raised' = "OSError"
          /\ ~Attached(arg', _attachments) =>
                Cardinality(_attachments') = Cardinality(_attachments) + 1]_vars

\* a missing and an existing file attached, one part in the message
C9_Witness ==
    /\ op = "attach_file" /\ ret = "self"
    /\ _attachments = {<<"gone.txt", "Missing">>, <<"ok.txt", "Exists">>}
    /\ Len(AttachmentParts(msg_parts)) = 1

\* the first call on an entered session was get_inbox() and it returned
FirstInboxReturned ==
    /\ session = "entered" /\ iop = "get_inbox" /\ ncalls = 1
    /\ iraised = "none"

\* the commands of a complete get_inbox(): SELECT INBOX, SEARCH ALL, then a
\* FETCH of every identifier the search reported, in search order
InboxCommands ==
    << <<"SELECT", "INBOX">>, <<"SEARCH", "ALL">> >>
        \o [i \in 1..Len(inbox) |-> <<"FETCH", inbox[i]>>]

\* C10 as stated: the first get_inbox() of a session selects INBOX, searches
\* and returns, in search order, one pair per identifier the search reported.
C10_InboxAsStated ==
    FirstInboxReturned =>
        /\ commands = << <<"LOGIN", Username>> >> \o InboxCommands
        /\ iret = [i \in 1..Len(inbox) |->
                      <<inbox[i], parse_from_bytes(RawOf(inbox[i]))>>]

\* the identifiers of the search whose FETCH yields raw content
Fetched == SelectSeq(inbox, LAMBDA num : num \in fetchable)

\* C10 amended: the first get_inbox() of a session selects INBOX, searches,
\* fetches every identifier the search reported, verbatim and in search
\* order, and returns, in that order, one pair per identifier whose fetch
\* yielded raw content; the other identifiers get no pair.
C10_Inbox ==
    FirstInboxReturned =>
        /\ commands = << <<"LOGIN", Username>> >> \o InboxCommands
        /\ imap_state = "SELECTED"
        /\ iret = parsed_emails
        /\ iret = [i \in 1..Len(Fetched) |->
                      <<Fetched[i], parse_from_bytes(RawOf(Fetched[i]))>>]

\* two identifiers reported, the first without content: one pair returned
C10_Witness ==
    /\ FirstInboxReturned
    /\ Len(inbox) = 2
    /\ inbox[1] \notin fetchable /\ inbox[2] \in fetchable
    /\ Len(iret) = 1 /\ iret[1][1] = inbox[2]

\* the port argument denotes an integer: an int, or a str int() accepts
DenotesInt(port) ==
    \/ port[1] = "int"
    \/ /\ port[1] = "str"
       /\ \E k \in 1..Len(port[2]) :
             /\ \A i \in k..Len(port[2]) : port[2][i] \in Digits
             /\ \A i \in 1..(k - 1) : i = 1 /\ port[2][i] = "-"

\* str(n) for the integers whose digits the model has
StrOf(n) ==
    LET digit(d) == CASE d = 0 -> "0" [] d = 1 -> "1" [] d = 7 -> "7"
        mag == IF n < 0 THEN 0 - n ELSE n
        digs == IF mag < 10 THEN <<digit(mag)>>
                ELSE <<digit(mag \div 10), digit(mag % 10)>>
    IN  IF n < 0 THEN <<"-">> \o digs ELSE digs

\* the integers StrOf can write
Writable == {n \in -77..77 :
                LET mag == IF n < 0 THEN 0 - n ELSE n
                IN  /\ (mag % 10) \in {0, 1, 7}
                    /\ (mag \div 10) \in {0, 1, 7}}

\* C11 as stated: construction succeeds exactly when the port is an integer
\* or an integer-valued string that denotes a positive integer; zero, a
\* negative port and a non-numeric string fail with a validation error.
C11_PositivePortAsStated ==
    s_done => /\ (s_raised = "none") <=> (DenotesInt(port_arg) /\ s_port > 0)
              /\ (s_raised # "none") => (s_raised = "ValueError")
              /\ (~DenotesInt(port_arg)) => (s_raised = "ValueError")
              /\ (port_arg[1] = "int" /\ port_arg[2] <= 0)
                    => (s_raised = "ValueError")

\* C11 amended: construction succeeds exactly when the port is an integer
\* or a string int() accepts, of any sign, zero included; the string form
\* stores the same integer as the integer form; every other string fails
\* with ValueError.
C11_Port ==
    s_done =>
        /\ (s_raised = "none") <=> DenotesInt(port_arg)
        /\ (s_raised # "none") => (s_raised = "ValueError")
        /\ (port_arg[1] = "int") => (s_port = port_arg[2])
        /\ \A n \in Writable :
              (port_arg = <<"str", StrOf(n)>>)
                  => (s_raised = "none" /\ s_port = PortResult(<<"int", n>>).port)

\* the string "-7" constructed: accepted, and stored as the integer -7
C11_Witness ==
    /\ s_done /\ s_raised = "none"
    /\ port_arg = <<"str", <<"-", "7">> >>
    /\ s_port = -7

\* C12: get_inbox() and store() on a session that has been exited raise
\* ConnectionError, as they do before the session is opened.
C12_AfterExitRaisesConnectionError ==
    (session = "exited" /\ iop \in {"get_inbox", "store"})
        => (iraised = "ConnectionError")

\* C13: when login fails in __enter__, entry raises ConnectionError, the
\* session holds no connection afterwards, and a later get_inbox() or
\* store() raises ConnectionError.
C13_FailedEntryLeavesNoConnection ==
    (session = "failed" /\ commands # <<>>)
        => /\ connection = "None"
           /\ iraised = "ConnectionError"

\* the step is an __exit__
ExitStep == session = "entered" /\ session' = "exited"

IndexOf(seq, x) == CHOOSE i \in 1..Len(seq) : seq[i] = x

\* C14: __exit__ issues CLOSE if and only if the connection is SELECTED
\* when it runs, a CLOSE it issues comes before the LOGOUT, and a session
\* that never selected a mailbox gets no CLOSE.
C14_CloseIffSelected ==
    /\ [][ExitStep =>
            /\ Count(exit_commands', "CLOSE")
                  = (IF imap_state = "SELECTED" THEN 1 ELSE 0)
            /\ (Count(exit_commands', "CLOSE") = 1
                    /\ Count(exit_commands', "LOGOUT") >= 1)
                  => IndexOf(exit_commands', "CLOSE")
                        < IndexOf(exit_commands', "LOGOUT")]_vars
    /\ []((session = "exited"
             /\ Count(commands, <<"SELECT", "INBOX">>) = 0)
            => Count(exit_commands, "CLOSE") = 0)

\* a session left while SELECTED: CLOSE, then LOGOUT
C14_Witness ==
    /\ session = "exited"
    /\ Count(commands, <<"SELECT", "INBOX">>) >= 1
    /\ exit_commands = <<"CLOSE", "LOGOUT">>

\* the pairs one complete get_inbox() appends
InboxPairs ==
    [i \in 1..Len(Fetched) |->
        <<Fetched[i], parse_from_bytes(RawOf(Fetched[i]))>>]

RECURSIVE Repeat(_, _)
Repeat(seq, k) == IF k = 0 THEN <<>> ELSE Repeat(seq, k - 1) \o seq

\* C15: get_inbox() never resets parsed_emails: a call that returns has
\* appended its pairs after those of the earlier calls, which stay in
\* place, so after k calls on a mailbox of n fetchable messages it returns
\* k*n entries.
C15_InboxAccumulates ==
    /\ [][(SessionCalled /\ iop' = "get_inbox" /\ iraised' = "none") =>
            /\ parsed_emails' = parsed_emails \o InboxPairs
            /\ iret' = parsed_emails']_vars
    /\ []((iop = "get_inbox" /\ iraised = "none") =>
            /\ iret = Repeat(InboxPairs,
                             Count(commands, <<"SELECT", "INBOX">>))
            /\ Len(iret) = Count(commands, <<"SELECT", "INBOX">>)
                              * Cardinality(Range(inbox) \cap fetchable))

\* the second get_inbox() of a session on a mailbox with fetchable
\* messages: the pairs of the first call, then the same pairs again
C15_Witness ==
    /\ iop = "get_inbox" /\ iraised = "none" /\ ncalls = 2
    /\ Len(Fetched) >= 1
    /\ Len(iret) = 2 * Len(Fetched)
    /\ SubSeq(iret, 1, Len(Fetched)) = InboxPairs

\* C20: store() returns True only if the server reported the flag mutation
\* as successful.
C20_StoreTrueOnlyOnSuccess ==
    (iop = "store" /\ iraised = "none" /\ iret = "True")
        => (store_reply = "OK")

\* C16: a non-dev send() calls the transport in the order connect,
\* STARTTLS, login, sendmail; a step is attempted only after the steps
\* before it succeeded; and once the session is acquired (connect
\* succeeded) it is released exactly once, as the last call, on every way
\* out of send().
C16_TransportOrderAndRelease ==
    (op = "send" /\ ~dev_mode) =>
        LET steps == SelectSeq(transport, LAMBDA e : e # "quit")
        IN  /\ Len(steps) >= 1
            /\ \A i \in 1..Len(steps) : steps[i] = TransportSteps[i]
            /\ ("starttls" \in Range(transport)) => (arg[1] # "connect")
            /\ ("login" \in Range(transport))
                  => (arg[1] \notin {"connect", "starttls"})
            /\ ("sendmail" \in Range(transport))
                  => (arg[1] \notin {"connect", "starttls", "login"})
            /\ IF arg[1] = "connect"
               THEN Count(transport, "quit") = 0
               ELSE /\ Count(transport, "quit") = 1
                    /\ transport[Len(transport)] = "quit"

\* a send() whose STARTTLS raised an error that escapes: no login, no
\* sendmail, and the session released
C16_Witness ==
    /\ op = "send" /\ ~dev_mode
    /\ arg = <<"starttls", "SSLError">> /\ raised = "SSLError"
    /\ transport = <<"connect", "starttls", "quit">>

\* C17: the envelope sender handed to sendmail is the settings identity,
\* and the envelope recipient list is the union of the three recipient
\* sets, each address once.
C17_EnvelopeIsUnion ==
    (op = "send" /\ envelope # <<>>) =>
        /\ envelope[1] = Username
        /\ Range(envelope[2])
              = _recipients \cup _cc_recipients \cup _bcc_recipients
        /\ Len(envelope[2])
              = Cardinality(_recipients \cup _cc_recipients
                                \cup _bcc_recipients)

\* every file recorded as existing could be read
AllAttachedReadable ==
    \A r \in _attachments : FileExists(r[1]) => FileReadable(r[1])

\* C19: after any attach_file / attach_files calls that read their files,
\* the message has as many attachment parts as the attachment set has
\* records with status Exists, and no path has two records.
C19_PartsMatchRecords ==
    AllAttachedReadable =>
        /\ Len(AttachmentParts(msg_parts))
              = Cardinality({r \in _attachments : r[2] = "Exists"})
        /\ \A r1, r2 \in _attachments : (r1[1] = r2[1]) => (r1 = r2)

\* the mutable state of builder i and of session i
BuilderState(i) == [f \in BuilderFields |-> b_heap[b_refs[i][f]]]
SessionState(i) == s_heap[s_refs[i]]

\* C18: a call on one SMTPEmailService leaves the recipient sets, the
\* attachment set and the message (headers and parts) of every other
\* builder unchanged, and a call on one IMAPEmailService leaves the
\* parsed_emails of every other session unchanged.
C18_InstancesShareNothing ==
    [][/\ \A i \in Instances :
             (BuilderMade(i) /\ actor' # <<"builder", i>>)
                => /\ b_refs'[i] = b_refs[i]
                   /\ [f \in BuilderFields |-> b_heap'[b_refs'[i][f]]]
                         = BuilderState(i)
       /\ \A i \in Instances :
             (SessionMade(i) /\ actor' # <<"session", i>>)
                => /\ s_refs'[i] = s_refs[i]
                   /\ s_heap'[s_refs'[i]] = SessionState(i)]_vars

\* both builders and both sessions exist; builder 1 was given a recipient
\* and session 1 fetched its inbox, builder 2 and session 2 are as made
C18_Witness ==
    /\ \A i \in Instances : BuilderMade(i) /\ SessionMade(i)
    /\ BuilderState(1)["_recipients"] # {}
    /\ BuilderState(2) = [f \in BuilderFields |->
                             IF f = "_msg"
                             THEN [headers |-> <<>>, parts |-> <<>>] ELSE {}]
    /\ SessionState(1) # <<>>
    /\ SessionState(2) = <<>>

====
